---- MODULE Spec2Model ----
(***************************************************************************)
(* Crow's Tetris (src/src/main.rs): the CrowsTetris struct and the         *)
(* eframe update loop, one action per update() call (one frame).           *)
(*                                                                         *)
(* The struct's fields are the variables.  The wall clock is abstracted:   *)
(* "last_update.elapsed() >= drop_speed" is the frame input `tick`.        *)
(* Key presses, button clicks, the text typed into the name field and the  *)
(* value of the random generator are the other frame inputs.               *)
(***************************************************************************)
EXTENDS Integers, Sequences, FiniteSets, TLC

\* ---------------------------------------------------------------- bounds
\* The grid of the program is 100 x 32 (GRID_WIDTH, GRID_HEIGHT); the model
\* keeps every formula in terms of the two names and checks a small grid.
GRID_WIDTH == 6
GRID_HEIGHT == 3
\* a session is followed until MaxTicks gravity ticks have run
MaxTicks == 5
\* a new session is started while fewer than MaxSubmits scores were submitted
MaxSubmits == 1

VARIABLES
    state,                \* GameState
    score,                \* i32
    high_scores,          \* Vec<(String, i32)>
    new_high_score_name,  \* String
    is_paused,            \* bool
    grid,                 \* [[u8; GRID_WIDTH]; GRID_HEIGHT], grid[y][x]
    active_block,         \* Option<Block>
    panicked,             \* the process died on an out-of-range index
    ticks,                \* history: gravity ticks since the last start
    rows_removed,         \* history: full rows removed since the last start
    age,                  \* history: gravity ticks the active block has seen
    ev                    \* history: the screen and click of the last call

vars == <<state, score, high_scores, new_high_score_name, is_paused, grid,
          active_block, panicked, ticks, rows_removed, age, ev>>

Cols == 0 .. GRID_WIDTH - 1
Rows == 0 .. GRID_HEIGHT - 1

GameState == {"StartScreen", "Playing", "GameOver"}
BlockType == {"I", "O", "T", "S", "Z", "J", "L"}

\* Option<Block>::None; its empty shape makes every `if let Some` loop a no-op
None == [block_type |-> "None", position |-> <<0, 0>>, shape |-> <<>>]
IsSome(b) == b.block_type # "None"

EmptyRow == [x \in Cols |-> 0]
EmptyGrid == [y \in Rows |-> EmptyRow]

\* the struct as one value, so that a handler is a composition of its steps
Self == [state |-> state, score |-> score, high_scores |-> high_scores,
         new_high_score_name |-> new_high_score_name, is_paused |-> is_paused,
         grid |-> grid, active_block |-> active_block, panicked |-> panicked]

\* ------------------------------------------------- generate_random_block
CanonicalShape(t) ==
    CASE t = "I" -> << <<1, 1, 1, 1>> >>
      [] t = "O" -> << <<1, 1>>, <<1, 1>> >>
      [] t = "T" -> << <<0, 1, 0>>, <<1, 1, 1>> >>
      [] t = "S" -> << <<0, 1, 1>>, <<1, 1, 0>> >>
      [] t = "Z" -> << <<1, 1, 0>>, <<0, 1, 1>> >>
      [] t = "J" -> << <<1, 0, 0>>, <<1, 1, 1>> >>
      [] t = "L" -> << <<0, 0, 1>>, <<1, 1, 1>> >>

\* t is the kind the random generator picked
generate_random_block(t) ==
    [block_type |-> t,
     position |-> <<GRID_WIDTH \div 2 - 1, 0>>,
     shape |-> CanonicalShape(t)]

\* -------------------------------------------------------- check_collision
\* the two nested loops, row by row, with their early returns; dy, dx are
\* the 1-based indices into the shape
\* check_collision as it would be if a cell above the board counted as blocked
RECURSIVE CollisionScanAbove(_, _, _, _, _)
CollisionScanAbove(g, shape, pos, dy, dx) ==
    IF dy > Len(shape) THEN FALSE
    ELSE IF dx > Len(shape[dy]) THEN CollisionScanAbove(g, shape, pos, dy + 1, 1)
    ELSE IF shape[dy][dx] = 1
         THEN LET x == pos[1] + (dx - 1)
                  y == pos[2] + (dy - 1)
              IN  IF x < 0 \/ x >= GRID_WIDTH \/ y >= GRID_HEIGHT THEN TRUE
                  ELSE IF y < 0 \/ g[y][x] = 1 THEN TRUE
                  ELSE CollisionScanAbove(g, shape, pos, dy, dx + 1)
         ELSE CollisionScanAbove(g, shape, pos, dy, dx + 1)

RECURSIVE CollisionScan(_, _, _, _, _)
CollisionScan(g, shape, pos, dy, dx) ==
    IF dy > Len(shape) THEN FALSE
    ELSE IF dx > Len(shape[dy]) THEN CollisionScan(g, shape, pos, dy + 1, 1)
    ELSE IF shape[dy][dx] = 1
         THEN LET x == pos[1] + (dx - 1)
                  y == pos[2] + (dy - 1)
              IN  IF x < 0 \/ x >= GRID_WIDTH \/ y >= GRID_HEIGHT THEN TRUE
                  ELSE IF y >= 0 /\ g[y][x] = 1 THEN TRUE
                  ELSE CollisionScan(g, shape, pos, dy, dx + 1)
         ELSE CollisionScan(g, shape, pos, dy, dx + 1)

check_collision(s) ==
    CollisionScan(s.grid, s.active_block.shape, s.active_block.position, 1, 1)

\* the scan of check_collision_with_position as it would be if its left
\* boundary test were off by one (grid_x <= 0)
RECURSIVE PositionScanLeftWall(_, _, _, _, _)
PositionScanLeftWall(g, shape, pos, dy, dx) ==
    IF dy > Len(shape) THEN "false"
    ELSE IF dx > Len(shape[dy])
         THEN PositionScanLeftWall(g, shape, pos, dy + 1, 1)
    ELSE IF shape[dy][dx] # 0
         THEN LET grid_x == pos[1] + (dx - 1)
                  grid_y == pos[2] + (dy - 1)
              IN  IF grid_x <= 0 \/ grid_x >= GRID_WIDTH \/ grid_y >= GRID_HEIGHT
                  THEN "true"
                  ELSE IF grid_y < 0 THEN "panic"
                  ELSE IF g[grid_y][grid_x] # 0 THEN "true"
                  ELSE PositionScanLeftWall(g, shape, pos, dy, dx + 1)
         ELSE PositionScanLeftWall(g, shape, pos, dy, dx + 1)

\* ------------------------------------------ check_collision_with_position
\* "true", "false", or "panic" when grid[grid_y as usize] is indexed with a
\* negative grid_y (the cast wraps and the index is out of range)
RECURSIVE PositionScan(_, _, _, _, _)
PositionScan(g, shape, pos, dy, dx) ==
    IF dy > Len(shape) THEN "false"
    ELSE IF dx > Len(shape[dy]) THEN PositionScan(g, shape, pos, dy + 1, 1)
    ELSE IF shape[dy][dx] # 0
         THEN LET grid_x == pos[1] + (dx - 1)
                  grid_y == pos[2] + (dy - 1)
              IN  IF grid_x < 0 \/ grid_x >= GRID_WIDTH \/ grid_y >= GRID_HEIGHT
                  THEN "true"
                  ELSE IF grid_y < 0 THEN "panic"
                  ELSE IF g[grid_y][grid_x] # 0 THEN "true"
                  ELSE PositionScan(g, shape, pos, dy, dx + 1)
         ELSE PositionScan(g, shape, pos, dy, dx + 1)

check_collision_with_position(s, block_position) ==
    PositionScan(s.grid, s.active_block.shape, block_position, 1, 1)

\* ------------------------------------------------------------- lock_block
\* s with the filled cells of the active block written into the grid; an
\* index outside the grid panics
RECURSIVE LockScan(_, _, _, _)
LockScan(s, b, dy, dx) ==
    IF s.panicked \/ dy > Len(b.shape) THEN s
    ELSE IF dx > Len(b.shape[dy]) THEN LockScan(s, b, dy + 1, 1)
    ELSE IF b.shape[dy][dx] = 1
         THEN LET x == b.position[1] + (dx - 1)
                  y == b.position[2] + (dy - 1)
              IN  IF y >= 0
                  THEN IF y \in Rows /\ x \in Cols
                       THEN LockScan([s EXCEPT !.grid[y][x] = 1], b, dy, dx + 1)
                       ELSE [s EXCEPT !.panicked = TRUE]
                  ELSE LockScan(s, b, dy, dx + 1)
         ELSE LockScan(s, b, dy, dx + 1)

lock_block(s) == LockScan(s, s.active_block, 1, 1)

\* ------------------------------------------------------------ clear_lines
RowIsFull(row) == \A x \in Cols : row[x] = 1

\* the loop as it would be if the write cursor also moved past a full row
RECURSIVE ClearLoopGap(_, _, _, _)
ClearLoopGap(s, new_grid, new_row, y) ==
    IF y < 0 THEN [s EXCEPT !.grid = new_grid]
    ELSE IF RowIsFull(s.grid[y])
         THEN ClearLoopGap([s EXCEPT !.score = @ + 100], new_grid,
                           IF new_row > 0 THEN new_row - 1 ELSE 0, y - 1)
         ELSE LET copied == [new_grid EXCEPT ![new_row] = s.grid[y]]
              IN  IF 1 > new_row
                  THEN [s EXCEPT !.grid = copied]
                  ELSE ClearLoopGap(s, copied, new_row - 1, y - 1)

\* the loop as it would be if a full row were dropped without scoring
RECURSIVE ClearLoopNoScore(_, _, _, _)
ClearLoopNoScore(s, new_grid, new_row, y) ==
    IF y < 0 THEN [s EXCEPT !.grid = new_grid]
    ELSE IF RowIsFull(s.grid[y])
         THEN ClearLoopNoScore(s, new_grid, new_row, y - 1)
         ELSE LET copied == [new_grid EXCEPT ![new_row] = s.grid[y]]
              IN  IF 1 > new_row
                  THEN s
                  ELSE ClearLoopNoScore(s, copied, new_row - 1, y - 1)

\* the loop as it would be if the underflow guard returned one row early
RECURSIVE ClearLoopEarlyReturn(_, _, _, _)
ClearLoopEarlyReturn(s, new_grid, new_row, y) ==
    IF y < 0 THEN [s EXCEPT !.grid = new_grid]
    ELSE IF RowIsFull(s.grid[y])
         THEN ClearLoopEarlyReturn([s EXCEPT !.score = @ + 100], new_grid,
                                   new_row, y - 1)
         ELSE LET copied == [new_grid EXCEPT ![new_row] = s.grid[y]]
              IN  IF 2 > new_row
                  THEN s
                  ELSE ClearLoopEarlyReturn(s, copied, new_row - 1, y - 1)

\* the loop `for y in (0..GRID_HEIGHT).rev()` from row y on, with the
\* write cursor new_row and the grid under construction new_grid
RECURSIVE ClearLoop(_, _, _, _)
ClearLoop(s, new_grid, new_row, y) ==
    IF y < 0 THEN [s EXCEPT !.grid = new_grid]
    ELSE IF RowIsFull(s.grid[y])
         THEN ClearLoop([s EXCEPT !.score = @ + 100], new_grid, new_row, y - 1)
         ELSE LET copied == [new_grid EXCEPT ![new_row] = s.grid[y]]
              IN  IF 1 > new_row
                  THEN s          \* `return`: self.grid is not assigned
                  ELSE ClearLoop(s, copied, new_row - 1, y - 1)

clear_lines(s) == ClearLoop(s, EmptyGrid, GRID_HEIGHT - 1, GRID_HEIGHT - 1)

\* -------------------------------------------------------- move_block_down
\* move_block_down as it would be if the lines were cleared before the lock
move_block_down_clear_first(s, t) ==
    LET moved == IF IsSome(s.active_block)
                 THEN [s EXCEPT !.active_block.position[2] = @ + 1]
                 ELSE s
        collided == IsSome(s.active_block) /\ check_collision(moved)
    IN  IF collided
        THEN LET reverted == [moved EXCEPT !.active_block.position[2] = @ - 1]
                 cleared == clear_lines(reverted)
                 locked == lock_block(cleared)
                 spawned == [locked EXCEPT
                                !.active_block = generate_random_block(t)]
             IN  IF locked.panicked THEN locked
                 ELSE IF check_collision(spawned)
                      THEN [spawned EXCEPT !.state = "GameOver"]
                      ELSE spawned
        ELSE moved

\* move_block_down as it would be if the game-over check ran before the
\* new block is installed
move_block_down_check_first(s, t) ==
    LET moved == IF IsSome(s.active_block)
                 THEN [s EXCEPT !.active_block.position[2] = @ + 1]
                 ELSE s
        collided == IsSome(s.active_block) /\ check_collision(moved)
    IN  IF collided
        THEN LET reverted == [moved EXCEPT !.active_block.position[2] = @ - 1]
                 locked == lock_block(reverted)
                 cleared == clear_lines(locked)
                 spawned == [cleared EXCEPT
                                !.active_block = generate_random_block(t)]
             IN  IF locked.panicked THEN locked
                 ELSE IF check_collision(cleared)
                      THEN [spawned EXCEPT !.state = "GameOver"]
                      ELSE spawned
        ELSE moved

\* move_block_down as it would be if the move were reverted whether or not
\* it collided
move_block_down_revert_always(s, t) ==
    LET moved == IF IsSome(s.active_block)
                 THEN [s EXCEPT !.active_block.position[2] = @ + 1]
                 ELSE s
        collided == IsSome(s.active_block) /\ check_collision(moved)
        reverted == IF IsSome(s.active_block)
                    THEN [moved EXCEPT !.active_block.position[2] = @ - 1]
                    ELSE moved
    IN  IF collided
        THEN LET locked == lock_block(reverted)
                 cleared == clear_lines(locked)
                 spawned == [cleared EXCEPT
                                !.active_block = generate_random_block(t)]
             IN  IF locked.panicked THEN locked
                 ELSE IF check_collision(spawned)
                      THEN [spawned EXCEPT !.state = "GameOver"]
                      ELSE spawned
        ELSE reverted

\* move_block_down as it would be without the call of clear_lines
move_block_down_no_clear(s, t) ==
    LET moved == IF IsSome(s.active_block)
                 THEN [s EXCEPT !.active_block.position[2] = @ + 1]
                 ELSE s
        collided == IsSome(s.active_block) /\ check_collision(moved)
    IN  IF collided
        THEN LET reverted == [moved EXCEPT !.active_block.position[2] = @ - 1]
                 locked == lock_block(reverted)
                 spawned == [locked EXCEPT
                                !.active_block = generate_random_block(t)]
             IN  IF locked.panicked THEN locked
                 ELSE IF check_collision(spawned)
                      THEN [spawned EXCEPT !.state = "GameOver"]
                      ELSE spawned
        ELSE moved

\* move_block_down as it would be if only the floor, not the locked cells,
\* made a block lock
move_block_down_floor_only(s, t) ==
    LET moved == IF IsSome(s.active_block)
                 THEN [s EXCEPT !.active_block.position[2] = @ + 1]
                 ELSE s
        collided == IsSome(s.active_block) /\ check_collision(moved)
    IN  IF collided
        THEN LET reverted == [moved EXCEPT !.active_block.position[2] = @ - 1]
                 locked == lock_block(reverted)
                 cleared == clear_lines(locked)
                 spawned == [cleared EXCEPT
                                !.active_block = generate_random_block(t)]
             IN  IF moved.active_block.position[2]
                       + Len(moved.active_block.shape) <= GRID_HEIGHT
                 THEN reverted
                 ELSE IF locked.panicked THEN locked
                 ELSE IF check_collision(spawned)
                      THEN [spawned EXCEPT !.state = "GameOver"]
                      ELSE spawned
        ELSE moved

\* t is the kind the random generator picks if a block is generated
move_block_down(s, t) ==
    LET moved == IF IsSome(s.active_block)
                 THEN [s EXCEPT !.active_block.position[2] = @ + 1]
                 ELSE s
        collided == IsSome(s.active_block) /\ check_collision(moved)
    IN  IF collided
        THEN LET reverted == [moved EXCEPT !.active_block.position[2] = @ - 1]
                 locked == lock_block(reverted)
                 cleared == clear_lines(locked)
                 spawned == [cleared EXCEPT
                                !.active_block = generate_random_block(t)]
             IN  IF locked.panicked THEN locked
                 ELSE IF check_collision(spawned)
                      THEN [spawned EXCEPT !.state = "GameOver"]
                      ELSE spawned
        ELSE moved

\* ------------------------------------------------------------- reset_game
\* reset_game as it would be if the grid were not cleared
reset_game_keeps_grid(s, t) ==
    [s EXCEPT !.state = "Playing",
              !.score = 0,
              !.is_paused = FALSE,
              !.active_block = generate_random_block(t)]

reset_game(s, t) ==
    [s EXCEPT !.state = "Playing",
              !.score = 0,
              !.is_paused = FALSE,
              !.grid = EmptyGrid,
              !.active_block = generate_random_block(t)]

\* ------------------------------------------------------ render_gameplay
Keys == {"Space", "ArrowLeft", "ArrowRight", "ArrowUp", "ArrowDown", "Escape"}

PressSpace(s, keys) ==
    IF "Space" \in keys THEN [s EXCEPT !.is_paused = ~@] ELSE s

GravityTick(s, tick, t) ==
    IF tick THEN move_block_down(s, t) ELSE s

\* the ArrowLeft handler as it would be if it relied on its position guard
\* without the collision check
PressArrowLeftUnchecked(s, keys) ==
    IF "ArrowLeft" \in keys
    THEN IF IsSome(s.active_block) /\ s.active_block.position[1] > 0
         THEN [s EXCEPT !.active_block.position[1] = @ - 1]
         ELSE s
    ELSE s

PressArrowLeft(s, keys) ==
    IF "ArrowLeft" \in keys
    THEN LET new_position ==
                 IF IsSome(s.active_block)
                 THEN <<s.active_block.position[1] - 1, s.active_block.position[2]>>
                 ELSE <<0, 0>>
             has_collision == check_collision_with_position(s, new_position)
         IN  IF has_collision = "panic" THEN [s EXCEPT !.panicked = TRUE]
             ELSE IF has_collision = "false" /\ IsSome(s.active_block)
                     /\ s.active_block.position[1] > 0
                  THEN [s EXCEPT !.active_block.position[1] = @ - 1]
                  ELSE s
    ELSE s

\* the ArrowRight handler as it would be if the collision were checked at
\* the current position instead of the candidate position
PressArrowRightHere(s, keys) ==
    IF "ArrowRight" \in keys
    THEN LET new_position ==
                 IF IsSome(s.active_block)
                 THEN s.active_block.position
                 ELSE <<0, 0>>
             has_collision == check_collision_with_position(s, new_position)
         IN  IF has_collision = "panic" THEN [s EXCEPT !.panicked = TRUE]
             ELSE IF has_collision = "false" /\ IsSome(s.active_block)
                     /\ s.active_block.position[1]
                            + Len(s.active_block.shape[1]) <= GRID_WIDTH
                  THEN [s EXCEPT !.active_block.position[1] = @ + 1]
                  ELSE s
    ELSE s

PressArrowRight(s, keys) ==
    IF "ArrowRight" \in keys
    THEN LET new_position ==
                 IF IsSome(s.active_block)
                 THEN <<s.active_block.position[1] + 1, s.active_block.position[2]>>
                 ELSE <<0, 0>>
             has_collision == check_collision_with_position(s, new_position)
         IN  IF has_collision = "panic" THEN [s EXCEPT !.panicked = TRUE]
             ELSE IF has_collision = "false" /\ IsSome(s.active_block)
                     /\ s.active_block.position[1]
                            + Len(s.active_block.shape[1]) <= GRID_WIDTH
                  THEN [s EXCEPT !.active_block.position[1] = @ + 1]
                  ELSE s
    ELSE s

PressEscape(s, keys) ==
    IF "Escape" \in keys THEN [s EXCEPT !.state = "GameOver"] ELSE s

\* render_gameplay as it would be if Escape were handled before the pause
\* screen returns
render_gameplay_escape_first(s, keys, tick, t) ==
    LET ticked == PressEscape(GravityTick(PressSpace(s, keys), tick, t), keys)
    IN  IF ticked.panicked \/ ticked.is_paused THEN ticked
        ELSE LET left == PressArrowLeft(ticked, keys)
             IN  IF left.panicked THEN left ELSE PressArrowRight(left, keys)

\* ArrowUp and ArrowDown only draw a label
render_gameplay(s, keys, tick, t) ==
    LET ticked == GravityTick(PressSpace(s, keys), tick, t)
    IN  IF ticked.panicked \/ ticked.is_paused THEN ticked
        ELSE LET left == PressArrowLeft(ticked, keys)
                 right == IF left.panicked THEN left
                          ELSE PressArrowRight(left, keys)
             IN  IF right.panicked THEN right ELSE PressEscape(right, keys)

\* --------------------------------------------------- render_start_screen
render_start_screen(s, click, t) ==
    IF click = "Start Game" THEN reset_game(s, t) ELSE s

\* ------------------------------------------------------ render_game_over
\* Vec::sort_by(|a, b| b.1.cmp(&a.1)): stable, descending by score; the
\* list is sorted by inserting each entry after the entries not below it
RECURSIVE InsertDesc(_, _)
InsertDesc(e, sorted) ==
    IF sorted = <<>> THEN <<e>>
    ELSE IF Head(sorted)[2] >= e[2]
         THEN <<Head(sorted)>> \o InsertDesc(e, Tail(sorted))
         ELSE <<e>> \o sorted

RECURSIVE SortDesc(_)
SortDesc(v) ==
    IF v = <<>> THEN <<>>
    ELSE InsertDesc(v[Len(v)], SortDesc(SubSeq(v, 1, Len(v) - 1)))

Truncate(v, n) == IF Len(v) > n THEN SubSeq(v, 1, n) ELSE v

\* render_game_over as it would be if a submission left the screen open
render_game_over_stays(s, typed, click) ==
    LET edited == [s EXCEPT !.new_high_score_name = typed]
    IN  IF click = "Submit Score" /\ edited.new_high_score_name # ""
        THEN [edited EXCEPT
                !.high_scores =
                    Truncate(SortDesc(Append(@, <<edited.new_high_score_name,
                                                  edited.score>>)), 10),
                !.new_high_score_name = ""]
        ELSE IF click = "Back to Start"
             THEN [edited EXCEPT !.state = "StartScreen"]
             ELSE edited

\* typed is the content of the name field after this frame's text edit
render_game_over(s, typed, click) ==
    LET edited == [s EXCEPT !.new_high_score_name = typed]
    IN  IF click = "Submit Score" /\ edited.new_high_score_name # ""
        THEN [edited EXCEPT
                !.high_scores =
                    Truncate(SortDesc(Append(@, <<edited.new_high_score_name,
                                                  edited.score>>)), 10),
                !.new_high_score_name = "",
                !.state = "StartScreen"]
        ELSE IF click = "Back to Start"
             THEN [edited EXCEPT !.state = "StartScreen"]
             ELSE edited

\* ----------------------------------------------------------------- update
\* update as it would be if the game-over screen still ran the gameplay
update_over_plays(s, inp) ==
    CASE s.state = "StartScreen" -> render_start_screen(s, inp.click, inp.t)
      [] s.state = "Playing" -> render_gameplay(s, inp.keys, inp.tick, inp.t)
      [] s.state = "GameOver" ->
            render_gameplay(render_game_over(s, inp.typed, inp.click),
                            inp.keys, inp.tick, inp.t)

\* one call of eframe::App::update; inp holds the inputs of the frame
update(s, inp) ==
    CASE s.state = "StartScreen" -> render_start_screen(s, inp.click, inp.t)
      [] s.state = "Playing" -> render_gameplay(s, inp.keys, inp.tick, inp.t)
      [] s.state = "GameOver" -> render_game_over(s, inp.typed, inp.click)

NoInput == [keys |-> {}, tick |-> FALSE, click |-> "none", typed |-> "", t |-> "I"]

FullRows(g) == {y \in Rows : RowIsFull(g[y])}

\* what the gravity tick of this frame locks: the block rests (one row
\* further down collides) when the tick runs, after the Space key
TickLocks(s, inp) ==
    /\ s.state = "Playing"
    /\ inp.tick
    /\ IsSome(s.active_block)
    /\ check_collision([s EXCEPT !.active_block.position[2] = @ + 1])

\* the number of full rows the lock of this frame completes
TickClears(s, inp) ==
    IF TickLocks(s, inp) THEN Cardinality(FullRows(lock_block(s).grid)) ELSE 0

Commit(s, inp) ==
    \E n \in {update(s, inp)},
       start \in {s.state = "StartScreen" /\ inp.click = "Start Game"} :
        /\ state' = n.state
        /\ score' = n.score
        /\ high_scores' = n.high_scores
        /\ new_high_score_name' = n.new_high_score_name
        /\ is_paused' = n.is_paused
        /\ grid' = n.grid
        /\ active_block' = n.active_block
        /\ panicked' = n.panicked
        /\ ticks' = IF start THEN 0
                    ELSE IF s.state = "Playing" /\ inp.tick THEN ticks + 1
                    ELSE ticks
        /\ rows_removed' = IF start THEN 0
                           ELSE rows_removed + TickClears(s, inp)
        /\ age' = IF start \/ TickLocks(s, inp) THEN 0
                  ELSE IF s.state = "Playing" /\ inp.tick THEN age + 1
                  ELSE age
        /\ ev' = [op |-> s.state, click |-> inp.click,
                  dirty |-> start /\ (s.grid # EmptyGrid \/ s.score # 0)]

\* the values the random generator can return in a frame: it is only asked
\* when generate_random_block is called
Rng(called) == IF called THEN BlockType ELSE {"I"}

Init ==
    /\ state = "StartScreen"
    /\ score = 0
    /\ high_scores = <<>>
    /\ new_high_score_name = ""
    /\ is_paused = FALSE
    /\ grid = EmptyGrid
    /\ active_block = None
    /\ panicked = FALSE
    /\ ticks = 0
    /\ rows_removed = 0
    /\ age = 0
    /\ ev = [op |-> "default", click |-> "none", dirty |-> FALSE]

\* the inputs of a gameplay frame: the gravity tick, one key, or the tick
\* together with a key that is handled before it (Space) or after it (the
\* arrows); a frame without input changes nothing
GameplayInputs ==
    {[NoInput EXCEPT !.tick = TRUE]}
    \cup {[NoInput EXCEPT !.keys = {k}] : k \in Keys}
    \cup {[NoInput EXCEPT !.keys = {k}, !.tick = TRUE] :
             k \in {"Space", "ArrowLeft", "ArrowRight"}}

\* the inputs of a frame on the game-over screen: the name field after the
\* text edit and the button clicked (a name is typed in the frame of the
\* Submit click), or a gravity tick with a key press, which the screen
\* ignores
GameOverInputs ==
    {[NoInput EXCEPT !.click = "Back to Start"],
     [NoInput EXCEPT !.click = "Submit Score"],
     [NoInput EXCEPT !.click = "Submit Score", !.typed = "A"],
     [NoInput EXCEPT !.tick = TRUE, !.keys = {"ArrowLeft"}]}

StartScreenInputs == {[NoInput EXCEPT !.click = "Start Game"]}

StartScreenFrame ==
    /\ state = "StartScreen" /\ ~panicked /\ ticks < MaxTicks
    /\ Len(high_scores) < MaxSubmits
    /\ \E inp \in StartScreenInputs :
         \E t \in Rng(TRUE) : Commit(Self, [inp EXCEPT !.t = t])

GameplayFrame ==
    /\ state = "Playing" /\ ~panicked /\ ticks < MaxTicks
    /\ \E inp \in GameplayInputs :
         \E t \in Rng(TickLocks(Self, inp)) : Commit(Self, [inp EXCEPT !.t = t])

GameOverFrame ==
    /\ state = "GameOver" /\ ~panicked /\ ticks < MaxTicks
    /\ \E inp \in GameOverInputs : Commit(Self, inp)

Next == StartScreenFrame \/ GameplayFrame \/ GameOverFrame

Spec == Init /\ [][Next]_vars

\* ------------------------------------------- clear_lines as a function
\* clear_lines applied once to each board built from the sample rows
RowSamples ==
    {EmptyRow,
     [x \in Cols |-> 1],
     [x \in Cols |-> IF x = 0 THEN 1 ELSE 0],
     [x \in Cols |-> IF x = GRID_WIDTH - 1 THEN 0 ELSE 1],
     [x \in Cols |-> IF x = GRID_WIDTH - 1 THEN 1 ELSE 0]}

InitClear ==
    /\ state = "Playing"
    /\ score = 0
    /\ high_scores = <<>>
    /\ new_high_score_name = ""
    /\ is_paused = FALSE
    /\ grid \in [Rows -> RowSamples]
    /\ active_block = None
    /\ panicked = FALSE
    /\ ticks = 0
    /\ rows_removed = 0
    /\ age = 0
    /\ ev = [op |-> "input"]

ClearLinesCall ==
    /\ ev.op = "input"
    /\ \E n \in {clear_lines(Self)} :
         /\ grid' = n.grid
         /\ score' = n.score
         /\ rows_removed' = Cardinality(FullRows(grid))
         /\ ev' = [op |-> "clear_lines", arg |-> grid]
    /\ UNCHANGED <<state, high_scores, new_high_score_name, is_paused,
                   active_block, panicked, ticks, age>>

SpecClear == InitClear /\ [][ClearLinesCall]_vars

\* --------------------------------------- check_collision as a function
\* check_collision applied once to each block placed on or around each
\* board built from the sample rows
Anchors == (-2 .. GRID_WIDTH) \X (-2 .. GRID_HEIGHT)

CollideRowSamples ==
    {EmptyRow,
     [x \in Cols |-> IF x < GRID_WIDTH \div 2 THEN 1 ELSE 0],
     [x \in Cols |-> IF x = GRID_WIDTH - 1 THEN 1 ELSE 0]}

InitCollide ==
    /\ state = "Playing"
    /\ score = 0
    /\ high_scores = <<>>
    /\ new_high_score_name = ""
    /\ is_paused = FALSE
    /\ grid \in [Rows -> CollideRowSamples]
    /\ active_block \in {[generate_random_block(t) EXCEPT !.position = a] :
                             t \in BlockType, a \in Anchors}
    /\ panicked = FALSE
    /\ ticks = 0
    /\ rows_removed = 0
    /\ age = 0
    /\ ev = [op |-> "input"]

CheckCollisionCall ==
    /\ ev.op = "input"
    /\ ev' = [op |-> "check_collision", ret |-> check_collision(Self)]
    /\ UNCHANGED <<state, score, high_scores, new_high_score_name, is_paused,
                   grid, active_block, panicked, ticks, rows_removed, age>>

SpecCollide == InitCollide /\ [][CheckCollisionCall]_vars

\* ------------------------------------------- sessions and the score list
\* the program constructed over a high-score file, then any number of
\* sessions that are played by gravity alone or ended with Escape

\* what load_high_scores can return: the lines of the file in file order,
\* of any length, unsorted, with any i32 score
ScoreFiles ==
    {<<>>,
     <<<<"B", 0>>, <<"C", 100>>>>,
     [i \in 1 .. 9 |-> <<"B", -100>>],
     [i \in 1 .. 10 |-> <<"B", 100>>],
     [i \in 1 .. 11 |-> <<"C", 100 * i - 300>>]}

InitScores ==
    /\ state = "StartScreen"
    /\ score = 0
    /\ high_scores \in ScoreFiles
    /\ new_high_score_name = ""
    /\ is_paused = FALSE
    /\ grid = EmptyGrid
    /\ active_block = None
    /\ panicked = FALSE
    /\ ticks = 0
    /\ rows_removed = 0
    /\ age = 0
    /\ ev = [op |-> "default", click |-> "none", dirty |-> FALSE]

ScoresGameplayInputs ==
    {[NoInput EXCEPT !.tick = TRUE], [NoInput EXCEPT !.keys = {"Escape"}]}

ScoresStartFrame ==
    /\ state = "StartScreen" /\ ~panicked
    /\ \E inp \in StartScreenInputs :
         \E t \in Rng(TRUE) : Commit(Self, [inp EXCEPT !.t = t])

ScoresGameplayFrame ==
    /\ state = "Playing" /\ ~panicked
    /\ \E inp \in ScoresGameplayInputs :
         \E t \in Rng(TickLocks(Self, inp)) : Commit(Self, [inp EXCEPT !.t = t])

ScoresGameOverFrame ==
    /\ state = "GameOver" /\ ~panicked
    /\ \E inp \in GameOverInputs : Commit(Self, inp)

SpecScores ==
    InitScores
      /\ [][ScoresStartFrame \/ ScoresGameplayFrame \/ ScoresGameOverFrame]_vars

\* ================================================================ claims
\* The properties are stated over cell sets, independently of the loops of
\* the code.

\* the absolute cells <<x, y>> of the filled cells of block b
FilledCells(b) ==
    {<<b.position[1] + p[2] - 1, b.position[2] + p[1] - 1>> :
        p \in {q \in (1 .. Len(b.shape)) \X (1 .. 4) :
                  q[2] <= Len(b.shape[q[1]]) /\ b.shape[q[1]][q[2]] = 1}}

\* the occupied cells <<x, y>> of board g
Occupied(g) == {c \in Cols \X Rows : g[c[2]][c[1]] = 1}

\* cell c is outside the left, right or bottom boundary, or is a cell of
\* the board (y >= 0) that is occupied
Blocked(g, c) ==
    \/ c[1] < 0
    \/ c[1] >= GRID_WIDTH
    \/ c[2] >= GRID_HEIGHT
    \/ (c[2] >= 0 /\ g[c[2]][c[1]] = 1)

WouldCollide(g, b) == \E c \in FilledCells(b) : Blocked(g, c)

Shifted(b, dx, dy) == [b EXCEPT !.position = <<@[1] + dx, @[2] + dy>>]

SpawnAnchor == <<GRID_WIDTH \div 2 - 1, 0>>

\* the active block rests: a gravity tick finds that one row further down
\* collides
Resting ==
    /\ state = "Playing"
    /\ IsSome(active_block)
    /\ WouldCollide(grid, Shifted(active_block, 0, 1))

\* the frame that leads to the primed state ran a gravity tick of a game
TickRan == ticks' = ticks + 1

\* that tick found the block resting
TickFindsCollision == TickRan /\ Resting

\* the frame that leads to the primed state started a game
Started == ev'.op = "StartScreen" /\ ev'.click = "Start Game"

\* locking the resting block and clearing the full rows: the cells that
\* are occupied afterwards and the number of rows removed
AfterLock ==
    LET cells == Occupied(grid) \cup FilledCells(active_block)
        full == {y \in Rows : \A x \in Cols : <<x, y>> \in cells}
        kept == {c \in cells : c[2] \notin full}
    IN  [cells |-> {<<c[1], c[2] + Cardinality({f \in full : f > c[2]})>> :
                       c \in kept},
         rows |-> Cardinality(full)]

\* C1: when a gravity tick finds that one row further down collides, the
\* block is not moved: exactly its filled cells at the current anchor are
\* added to the board, the full rows are cleared (the rows above move down),
\* the score grows by 100 per cleared row and a new block in canonical
\* shape is spawned at the top.
C1_TickLocksClearsSpawns ==
    [][TickFindsCollision =>
          /\ Occupied(grid') = AfterLock.cells
          /\ score' = score + 100 * AfterLock.rows
          /\ active_block'.block_type \in BlockType
          /\ active_block'.shape = CanonicalShape(active_block'.block_type)
          /\ active_block'.position[2] = 0
          /\ active_block'.position[1] \in
                {SpawnAnchor[1] - 1, SpawnAnchor[1], SpawnAnchor[1] + 1}]_vars

\* a tick locked a block, a row was cleared, cells remain and play goes on
C1_Witness ==
    /\ ev.op = "Playing"
    /\ rows_removed = 1
    /\ score = 100
    /\ grid # EmptyGrid
    /\ state = "Playing"
    /\ active_block.position[2] = 0

\* C2: clear_lines leaves the k non-full rows, in their original order, as
\* the bottom k rows and makes the top GRID_HEIGHT - k rows empty.
C2_ClearCompacts ==
    ev.op = "clear_lines" =>
        LET old == ev.arg
            kept == {y \in Rows : \E x \in Cols : old[y][x] = 0}
            k == Cardinality(kept)
        IN  /\ \A y \in kept :
                  grid[GRID_HEIGHT - k + Cardinality({z \in kept : z < y})] = old[y]
            /\ \A y \in 0 .. GRID_HEIGHT - k - 1 : grid[y] = EmptyRow

\* two full rows with a partly filled row between them were cleared at once
C2_Witness ==
    /\ ev.op = "clear_lines"
    /\ RowIsFull(ev.arg[0]) /\ RowIsFull(ev.arg[2])
    /\ ~RowIsFull(ev.arg[1]) /\ ev.arg[1] # EmptyRow
    /\ score = 200

\* C3: check_collision is true exactly when some filled cell of the block at
\* its anchor has x < 0, x >= GRID_WIDTH or y >= GRID_HEIGHT, or has y >= 0
\* and lies on an occupied cell; cells with y < 0 never collide with cells.
C3_CollisionIff ==
    ev.op = "check_collision" => (ev.ret = WouldCollide(grid, active_block))

\* a block partly above the board, over a non-empty top row, does not collide
C3_Witness ==
    /\ ev.op = "check_collision"
    /\ ~ev.ret
    /\ active_block.position[2] < 0
    /\ Len(active_block.shape) = 2
    /\ grid[0] # EmptyRow

\* the result of a frame with the one key k and no gravity tick
KeyAlone(k) == update(Self, [NoInput EXCEPT !.keys = {k}])

MoveOutcome(n, dx) ==
    /\ n.active_block = IF WouldCollide(grid, Shifted(active_block, dx, 0))
                        THEN active_block
                        ELSE Shifted(active_block, dx, 0)
    /\ n.grid = grid
    /\ n.score = score
    /\ n.state = state

\* C4: a left or right move while Playing commits the new anchor exactly
\* when the candidate anchor does not collide, and otherwise changes
\* nothing; the position guards of the key handlers reject no such move.
C4_MoveIffNoCollision ==
    (state = "Playing" /\ ~is_paused) =>
        /\ MoveOutcome(KeyAlone("ArrowLeft"), -1)
        /\ MoveOutcome(KeyAlone("ArrowRight"), 1)

\* a block was moved to the right wall, beside locked cells
C4_Witness ==
    /\ ev.op = "Playing"
    /\ state = "Playing"
    /\ \E c \in FilledCells(active_block) : c[1] = GRID_WIDTH - 1
    /\ grid # EmptyGrid

\* C5: when the block spawned after a lock collides at its initial position
\* the phase is Over in that same step, and otherwise it stays Playing.
C5_SpawnCollisionEndsGame ==
    [][TickFindsCollision =>
          state' = IF WouldCollide(grid',
                         [active_block' EXCEPT !.position = SpawnAnchor])
                   THEN "GameOver" ELSE "Playing"]_vars

\* a tick locked a block and the spawned block collided
C5_Witness ==
    /\ ev.op = "Playing"
    /\ state = "GameOver"
    /\ active_block.position = SpawnAnchor
    /\ WouldCollide(grid, active_block)

\* C6: once the phase is Over, gravity ticks and left/right intents leave
\* board, score and phase unchanged: in a later frame, and in the frame of
\* the tick that set the phase to Over.
C6_OverFreezesBoard ==
    [][/\ (state = "GameOver" /\ ev'.click = "none")
          => grid' = grid /\ score' = score /\ state' = "GameOver"
       /\ (TickFindsCollision /\ state' = "GameOver")
          => /\ Occupied(grid') = AfterLock.cells
             /\ score' = score + 100 * AfterLock.rows]_vars

\* a gravity tick and a key press were delivered on the game-over screen
C6_Witness ==
    /\ ev.op = "GameOver" /\ ev.click = "none"
    /\ state = "GameOver"
    /\ grid # EmptyGrid

\* C7: once the phase is Over the active block never changes until the next
\* start, also for the keys handled in the frame of the tick that set the
\* phase to Over.
C7_OverFreezesBlock ==
    [][/\ (state = "GameOver" /\ ev'.click = "none")
          => active_block' = active_block
       /\ (TickFindsCollision /\ state' = "GameOver")
          => active_block'.position = SpawnAnchor]_vars

\* C8: every transition into Playing is a reset: the board is empty, the
\* score 0, the game not paused and a block in canonical shape is at the
\* spawn anchor.
C8_StartResets ==
    [][(state # "Playing" /\ state' = "Playing") =>
          /\ state = "StartScreen"
          /\ Started
          /\ grid' = EmptyGrid
          /\ score' = 0
          /\ ~is_paused'
          /\ active_block'.block_type \in BlockType
          /\ active_block'.shape = CanonicalShape(active_block'.block_type)
          /\ active_block'.position = SpawnAnchor]_vars

\* a game was started over the remains of the previous session
C8_Witness ==
    /\ ev.op = "StartScreen" /\ ev.click = "Start Game" /\ ev.dirty
    /\ state = "Playing"
    /\ grid = EmptyGrid /\ score = 0

C10_SpawnCentred ==
    (ev.op = "StartScreen" /\ state = "Playing")
      => /\ active_block.shape = CanonicalShape(active_block.block_type)
         /\ active_block.position =
               <<GRID_WIDTH \div 2 - Len(active_block.shape[1]) \div 2, 0>>

\* the frames a claim about one key is stated for: the key alone or with the
\* gravity tick of the same frame
KeyInputs(k) == {[NoInput EXCEPT !.keys = {k}, !.tick = b] : b \in BOOLEAN}

\* the kinds the random generator can return in a frame with the input inp
Kinds(inp) == Rng(TickLocks(Self, inp))

\* C11 (as claimed): the phase changes from Playing to Over only when a
\* freshly spawned block collides at its initial position.
C11_OverOnlyBySpawn ==
    [][(state = "Playing" /\ state' = "GameOver") =>
          /\ TickFindsCollision
          /\ WouldCollide(grid',
                 [active_block' EXCEPT !.position = SpawnAnchor])]_vars

\* C11 (amended): a frame changes the phase from Playing to Over only when
\* its tick locks a block and the spawned block collides at its initial
\* position, or when Escape is pressed in a frame that does not end in the
\* pause screen.
C11_OverBySpawnOrEscape ==
    [](state = "Playing" =>
          \A inp \in GameplayInputs \cup KeyInputs("Escape") :
              \A t \in Kinds(inp) :
                  LET n == update(Self, [inp EXCEPT !.t = t])
                  IN  n.state = "GameOver" =>
                         \/ /\ inp.tick
                            /\ Resting
                            /\ WouldCollide(n.grid,
                                   [n.active_block EXCEPT
                                       !.position = SpawnAnchor])
                         \/ "Escape" \in inp.keys /\ ~n.is_paused)

\* a game ended on an empty board, where no spawned block can collide
C11_Witness ==
    /\ ev.op = "Playing"
    /\ state = "GameOver"
    /\ grid = EmptyGrid
    /\ IsSome(active_block)
    /\ ~is_paused

\* the active block can fall: one row further down does not collide
Falling ==
    /\ state = "Playing"
    /\ IsSome(active_block)
    /\ ~WouldCollide(grid, Shifted(active_block, 0, 1))

\* C12: when a gravity tick finds that one row further down does not
\* collide, its only effect is anchor.y + 1: anchor.x, shape, kind, board,
\* score and phase are unchanged and no block is spawned, whatever kind the
\* random generator would return.
C12_TickOnlyFalls ==
    Falling =>
        \A t \in BlockType :
            update(Self, [NoInput EXCEPT !.tick = TRUE, !.t = t])
               = [Self EXCEPT !.active_block = Shifted(active_block, 0, 1)]

\* a block fell by a tick beside locked cells
C12_Witness ==
    /\ ev.op = "Playing"
    /\ state = "Playing"
    /\ ticks > 0
    /\ active_block.position[2] > 0
    /\ grid # EmptyGrid

\* C13: clear_lines on a board without a full row leaves board and score
\* unchanged, and so does a second application; on a board whose occupied
\* cells are exactly one full row it scores one row and leaves an all-empty
\* board of GRID_HEIGHT rows.
C13_ClearNoneOrOne ==
    ev.op = "clear_lines" =>
        /\ FullRows(ev.arg) = {} =>
              /\ grid = ev.arg
              /\ score = 0
              /\ clear_lines(Self) = Self
        /\ (\E y \in Rows :
               /\ RowIsFull(ev.arg[y])
               /\ \A z \in Rows \ {y} : ev.arg[z] = EmptyRow) =>
              /\ grid = EmptyGrid
              /\ DOMAIN grid = Rows
              /\ score = 100

\* clear_lines ran to its early return: no row was full and none was empty
C13_Witness ==
    /\ ev.op = "clear_lines"
    /\ FullRows(ev.arg) = {}
    /\ \A y \in Rows : ev.arg[y] # EmptyRow
    /\ grid = ev.arg

\* the 90-degree rotation of a shape matrix: transpose, then reverse each row
Rotate(shape) ==
    [i \in 1 .. Len(shape[1]) |->
        [j \in 1 .. Len(shape) |-> shape[Len(shape) - j + 1][i]]]

\* C14: a rotate intent (ArrowUp) while Playing replaces the shape of the
\* active block by its 90-degree rotation when the rotated shape does not
\* collide at the current anchor, leaves the shape unchanged when it
\* collides, and never changes the anchor.
C14_ArrowUpRotates ==
    (state = "Playing" /\ ~is_paused /\ IsSome(active_block)) =>
        LET n == KeyAlone("ArrowUp")
            rotated == [active_block EXCEPT !.shape = Rotate(@)]
        IN  /\ n.active_block.position = active_block.position
            /\ n.active_block.shape =
                  IF WouldCollide(grid, rotated)
                  THEN active_block.shape
                  ELSE rotated.shape

\* C15: no grid index is ever out of range; every filled cell of an active
\* block lies inside the grid (so anchor.y is never negative); and while
\* the phase is Playing no filled cell of the active block lies on an
\* occupied cell of the board.
C15_BlockInsideGrid ==
    /\ ~panicked
    /\ IsSome(active_block) =>
          /\ active_block.position[2] >= 0
          /\ FilledCells(active_block) \subseteq Cols \X Rows
    /\ state = "Playing" =>
          FilledCells(active_block) \cap Occupied(grid) = {}

\* a block was moved to the left wall and rests there on locked cells
C15_Witness ==
    /\ ev.op = "Playing"
    /\ state = "Playing"
    /\ \E c \in FilledCells(active_block) : c[1] = 0
    /\ \E c \in FilledCells(active_block) :
          c[2] + 1 \in Rows /\ grid[c[2] + 1][c[1]] = 1

\* the candidate anchors the program computes for the active block: one
\* column to the left, one to the right, one row down
Candidates ==
    {Shifted(active_block, d[1], d[2]).position :
        d \in {<<-1, 0>>, <<1, 0>>, <<0, 1>>}}

\* C16: for every reachable board and active block and every candidate
\* anchor, check_collision_with_position at the candidate and check_collision
\* on the block placed at the candidate return the same result.
C16_SameCollisionRule ==
    IsSome(active_block) =>
        \A a \in Candidates :
            check_collision_with_position(Self, a)
               = IF check_collision([Self EXCEPT !.active_block.position = a])
                 THEN "true" ELSE "false"

\* the cells to the left of the active block are occupied and the cells to
\* its right are free: both checks answer true for one candidate and false
\* for the other
C16_Witness ==
    /\ ev.op = "Playing"
    /\ state = "Playing"
    /\ FilledCells(Shifted(active_block, -1, 0)) \cap Occupied(grid) # {}
    /\ ~WouldCollide(grid, Shifted(active_block, 1, 0))

\* C17: while the game is paused no simulation step is applied: a frame that
\* begins and ends paused, also one whose gravity tick is due, leaves board,
\* active block, score and phase unchanged.
C17_PauseFreezes ==
    [][(state = "Playing" /\ is_paused /\ is_paused') =>
          /\ grid' = grid
          /\ active_block' = active_block
          /\ score' = score
          /\ state' = state]_vars

\* C18: between update calls no row of the board is fully occupied: a row
\* completed by a lock is removed by the clear of the same tick.
C18_NoFullRow == FullRows(grid) = {}

\* a lock completed a row; it is gone and the cells above it came down
C18_Witness ==
    /\ rows_removed > 0
    /\ grid[GRID_HEIGHT - 1] # EmptyRow
    /\ ~RowIsFull(grid[GRID_HEIGHT - 1])

\* C19: while Playing, a frame without a gravity tick leaves anchor.y and
\* the shape of the active block as they are, whatever keys it handles; a
\* gravity tick raises anchor.y by exactly 1 or locks the block; so a block
\* has seen at most GRID_HEIGHT - 1 ticks when the tick that locks it comes.
C19_FallsUntilLocked ==
    /\ [](age <= GRID_HEIGHT - 1)
    /\ [][(state = "Playing" /\ IsSome(active_block)) =>
             IF ~TickRan
             THEN /\ active_block'.position[2] = active_block.position[2]
                  /\ active_block'.shape = active_block.shape
                  /\ age' = age
             ELSE IF Resting
             THEN /\ Occupied(grid') = AfterLock.cells
                  /\ age' = 0
             ELSE /\ active_block'.position[2] = active_block.position[2] + 1
                  /\ active_block'.shape = active_block.shape
                  /\ grid' = grid
                  /\ age' = age + 1]_vars

\* a block that was moved sideways has fallen to the bottom row: the next
\* tick, its GRID_HEIGHT-th, must lock it
C19_Witness ==
    /\ state = "Playing"
    /\ age = GRID_HEIGHT - 1
    /\ active_block.position[2] = GRID_HEIGHT - 1
    /\ active_block.position[1] # SpawnAnchor[1]

\* the frame that leads to the primed state submitted a score
Submitted ==
    /\ ev'.op = "GameOver"
    /\ ev'.click = "Submit Score"
    /\ state' = "StartScreen"

IsSortedDesc(v) == \A i \in 1 .. Len(v) - 1 : v[i][2] >= v[i + 1][2]

\* C20: the score of a session is submitted at most once: a submission
\* leaves the game-over screen, the list changes in no other frame, the
\* start screen is left only by a start that resets the score, and a game
\* is left only to the game-over screen; after every submission the list
\* is sorted by score in descending order and holds at most 10 entries.
C20_SubmitOncePerSession ==
    [][/\ Submitted =>
             /\ IsSortedDesc(high_scores')
             /\ Len(high_scores') <= 10
             /\ Len(high_scores') <= Len(high_scores) + 1
       /\ ~Submitted => high_scores' = high_scores
       /\ (state = "StartScreen" /\ state' # "StartScreen")
             => state' = "Playing" /\ score' = 0
       /\ (state = "Playing" /\ state' # "Playing")
             => state' = "GameOver"]_vars

\* two sessions were submitted into a list that is full: the entries of
\* both are in it and the lowest entries of the file were dropped
C20_Witness ==
    /\ state = "StartScreen"
    /\ ev.click = "Submit Score"
    /\ Len(high_scores) = 10
    /\ Cardinality({i \in 1 .. 10 : high_scores[i][1] = "A"}) = 2
====
